---- MODULE Spec2Model ----
(***************************************************************************)
(* Market lifecycle engine of the mock-trading backend                     *)
(* (backend/market/models.py, views.py, serializers.py and the             *)
(* auto_activate_markets management command).                              *)
(*                                                                         *)
(* One market row, its spread bids, its trades and the users' balances.    *)
(* In Spec every request handler is one atomic step (Django autocommit,    *)
(* one request at a time); SpecRace splits the lazy sweep into the read    *)
(* of the eligible rows and the activation of each row read, so that two   *)
(* requests interleave.  Time is counted in minutes; decimals are counted  *)
(* in thousandths of a currency unit so that quantize(Decimal('0.01'))     *)
(* is a real rounding step.                                                *)
(***************************************************************************)
EXTENDS Integers, FiniteSets, Sequences, TLC

VARIABLES now, market, bids, trades, balance, preview, executions, loaded

vars == <<now, market, bids, trades, balance, preview, executions, loaded>>

----------------------------------------------------------------------------
(* Bounds of the model *)

MaxBids == 2
MaxExecutions == 2
MaxDelays == 3

----------------------------------------------------------------------------
(* Program constants and value domains *)

Null == -1
NoUser == "nobody"

Minute == 1
Day == 1440 * Minute

Cent == 10
Unit == 100 * Cent
MinSettlementPrice == 1 * Cent
MaxSettlementPrice == 999999 * Unit + 99 * Cent

Users == {"admin", "u1", "u2"}
is_staff(u) == u = "admin"
is_verified(u) == u \in {"admin", "u1"}

InitialBalance == 6 * Unit

\* The instants timezone.now() is sampled at: the first minutes of the first
\* day, and the same minutes one day later (after a one-day delay)
ClockValues ==
    {0, 1 * Minute, 2 * Minute, 3 * Minute,
     Day + 2 * Minute, Day + 3 * Minute}

\* Requests the users send: (bidder, spread_low, spread_high)
BidInputs == {<<"u1", 1, 3>>, <<"u1", 2, 3>>, <<"u2", 2, 3>>,
              <<"admin", 2, 3>>, <<"u2", 0, 2>>}
\* PATCH bodies the administrator sends: (status, outcome, low, high)
UpdateInputs == {<<"OPEN", Null, 3, 4>>, <<"OPEN", Null, Null, Null>>,
                 <<"keep", Null, 3, 4>>, <<"CLOSED", Null, Null, Null>>,
                 <<"SETTLED", 1, Null, Null>>, <<"SETTLED", Null, Null, Null>>,
                 <<"CREATED", Null, Null, Null>>}
\* place_trade requests: (user, position, quantity)
TradeRequests == {<<"u1", "LONG", 2>>, <<"u1", "SHORT", 2>>,
                  <<"u2", "LONG", 2>>, <<"u2", "SHORT", 2>>,
                  <<"admin", "LONG", 2>>, <<"u1", "LONG", 0>>}
\* Trade.objects.create calls: (user, position, edge of the maker's spread
\* the float price is taken from, thousandths added to it, quantity)
TradeCreations == {<<"u1", "LONG", "high", 0, 2>>, <<"u1", "LONG", "high", 4, 2>>,
                   <<"u1", "SHORT", "low", 0, 2>>, <<"u2", "LONG", "high", 0, 2>>,
                   <<"u2", "SHORT", "low", 0, 2>>, <<"admin", "LONG", "high", 0, 2>>,
                   <<"u1", "LONG", "low", 0, 2>>, <<"u1", "LONG", "high", 0, 0>>}
PriceInputs == {5, 2004}
\* set_market_maker requests: (user, spread_low, spread_high)
MakerInputs == {<<"u2", 1, 2>>, <<"u1", 2, 1>>}
\* Requests whose lazy sweep may be in flight at the same time
Sweepers == {1, 2}

NoReport == [computed |-> FALSE, settlement_price |-> Null, trades |-> {},
             market_maker_impact |-> 0]

----------------------------------------------------------------------------
(* Market: time-window predicates (models.py properties) *)

is_spread_bidding_active(m, t) ==
    m.spread_bidding_open <= t /\ t <= m.spread_bidding_close_trading_open

is_trading_active(m, t) ==
    /\ m.spread_bidding_close_trading_open <= t
    /\ t <= m.trading_close
    /\ m.status = "OPEN"

should_auto_close_strictly_after(m, t) == m.status = "OPEN" /\ t > m.trading_close

should_auto_close(m, t) == m.status = "OPEN" /\ t >= m.trading_close

can_be_settled(m) == m.status = "CLOSED" /\ m.settlement_price # Null

can_be_reopened_with_price(m) == m.status = "CLOSED"

can_be_reopened(m) == m.status = "CLOSED" /\ m.settlement_price = Null

should_auto_activate(m, bs, t) ==
    /\ m.status = "CREATED"
    /\ t > m.spread_bidding_close_trading_open
    /\ bs # {}
    /\ m.final_spread_low = Null
    /\ m.final_spread_high = Null

should_delay_for_no_bids(m, bs, t) ==
    /\ m.status = "CREATED"
    /\ t > m.spread_bidding_close_trading_open
    /\ bs = {}
    /\ m.final_spread_low = Null
    /\ m.final_spread_high = Null

----------------------------------------------------------------------------
(* Spread bids *)

spread_width(b) == b.spread_high - b.spread_low

\* key=lambda bid: (bid.spread_width, bid.bid_time), compared as a tuple
BidKeyLeq(a, b) ==
    \/ spread_width(a) < spread_width(b)
    \/ spread_width(a) = spread_width(b) /\ a.bid_time <= b.bid_time

BidKeyLeqByTime(a, b) ==
    \/ a.bid_time < b.bid_time
    \/ a.bid_time = b.bid_time /\ spread_width(a) <= spread_width(b)

best_spread_bid_by_time(bs) == {b \in bs : \A c \in bs : BidKeyLeqByTime(b, c)}

\* min(bids, key=...): the bids that min() can return; more than one only
\* when width and bid_time are both equal (the row order then decides).
best_spread_bid(bs) == {b \in bs : \A c \in bs : BidKeyLeq(b, c)}

SpreadBid_clean_window_unchecked(m, u, lo, hi, t) ==
    /\ lo > 0
    /\ hi > 0
    /\ lo < hi
    /\ hi - lo > 0
    /\ ~is_staff(u)
    /\ u # m.created_by

\* SpreadBid.clean(): TRUE iff no ValidationError is raised
SpreadBid_clean(m, u, lo, hi, t) ==
    /\ lo > 0
    /\ hi > 0
    /\ lo < hi
    /\ hi - lo > 0
    /\ is_spread_bidding_active(m, t)
    /\ ~is_staff(u)
    /\ u # m.created_by

----------------------------------------------------------------------------
(* Market.save() *)

Truthy(x) == x # Null /\ x # 0

AutoClosed(m, t) ==
    IF should_auto_close(m, t) THEN [m EXCEPT !.status = "CLOSED"] ELSE m

WithDefaultMaker(m) ==
    IF m.market_maker = NoUser THEN [m EXCEPT !.market_maker = m.created_by]
    ELSE m

MakerSpreadMissing(m) ==
    ~Truthy(m.market_maker_spread_low) \/ ~Truthy(m.market_maker_spread_high)

FinalSpreadMissing(m) ==
    ~Truthy(m.final_spread_low) \/ ~Truthy(m.final_spread_high)

\* IntegerField value stored in a DecimalField(decimal_places=2), and back
ToDecimal(i) == i * Unit
ToInteger(d) == IF d < 0 THEN 0 - ((0 - d) \div Unit) ELSE d \div Unit

WithMakerSpread(m) ==
    IF MakerSpreadMissing(m)
    THEN [m EXCEPT !.market_maker_spread_low = ToDecimal(m.final_spread_low),
                   !.market_maker_spread_high = ToDecimal(m.final_spread_high)]
    ELSE m

WithFinalSpread(m) ==
    IF FinalSpreadMissing(m)
    THEN [m EXCEPT !.final_spread_low = ToInteger(m.market_maker_spread_low),
                   !.final_spread_high = ToInteger(m.market_maker_spread_high)]
    ELSE m

\* TRUE iff Market.save() raises "Cannot open market without final spread"
SaveRaises(m, t) ==
    LET c == AutoClosed(m, t)
    IN  c.status = "OPEN" /\ MakerSpreadMissing(c) /\ FinalSpreadMissing(c)

\* The row written by Market.save() of the in-memory object m at time t
\* (only meaningful when ~SaveRaises(m, t)).
Saved(m, t) ==
    LET c == AutoClosed(m, t)
    IN  IF c.status = "OPEN"
        THEN WithFinalSpread(WithMakerSpread(WithDefaultMaker(c)))
        ELSE c

\* Market.save() as seen from the database: db is the stored row
Market_save(db, m, t) == IF SaveRaises(m, t) THEN db ELSE Saved(m, t)

----------------------------------------------------------------------------
(* Auction resolver *)

WithWinningBid(m, w) ==
    [m EXCEPT !.final_spread_low = w.spread_low,
              !.final_spread_high = w.spread_high,
              !.created_by = w.user,
              !.market_maker = w.user,
              !.market_maker_spread_low = ToDecimal(w.spread_low),
              !.market_maker_spread_high = ToDecimal(w.spread_high),
              !.status = "OPEN"]

auto_activate_market_unchecked(m, bs, t, w) ==
    IF SaveRaises(WithWinningBid(m, w), t)
    THEN [success |-> FALSE, m |-> m]
    ELSE [success |-> TRUE, m |-> Saved(WithWinningBid(m, w), t)]

\* Market.auto_activate_market() with min() returning w: result and stored row
auto_activate_market(m, bs, t, w) ==
    IF ~should_auto_activate(m, bs, t)
    THEN [success |-> FALSE, m |-> m]
    ELSE IF SaveRaises(WithWinningBid(m, w), t)
         THEN [success |-> FALSE, m |-> m]
         ELSE [success |-> TRUE, m |-> Saved(WithWinningBid(m, w), t)]

\* Market.delay_market_for_no_bids()
delay_market_for_no_bids(m, bs, t) ==
    IF ~should_delay_for_no_bids(m, bs, t)
    THEN [success |-> FALSE, m |-> m]
    ELSE [success |-> TRUE,
          m |-> Saved([m EXCEPT
                 !.spread_bidding_close_trading_open = @ + Day,
                 !.trading_close = @ + Day], t)]

SweepEligible_after_trading_close(m, bs, t) ==
    /\ m.status = "CREATED"
    /\ m.trading_close < t
    /\ m.final_spread_low = Null
    /\ m.final_spread_high = Null
    /\ bs # {}

\* The filter of views.auto_activate_eligible_markets()
SweepEligible(m, bs, t) ==
    /\ m.status = "CREATED"
    /\ m.spread_bidding_close_trading_open < t
    /\ m.final_spread_low = Null
    /\ m.final_spread_high = Null
    /\ bs # {}

\* The candidates min() may return, or a placeholder when there is no bid
Winners(bs) == IF bs = {} THEN {[user |-> NoUser, spread_low |-> 0,
                                  spread_high |-> 0, bid_time |-> 0]}
               ELSE best_spread_bid(bs)

\* views.auto_activate_eligible_markets(): the stored row after the sweep
auto_activate_eligible_markets(m, bs, t, w) ==
    IF SweepEligible(m, bs, t) THEN auto_activate_market(m, bs, t, w).m
    ELSE m

----------------------------------------------------------------------------
(* Initial state: one market created by the administrator, no bids *)

NewMarket ==
    [status |-> "CREATED",
     created_by |-> "admin",
     initial_spread |-> 3,
     spread_bidding_open |-> 1 * Minute,
     spread_bidding_close_trading_open |-> 2 * Minute,
     trading_close |-> 4 * Minute,
     final_spread_low |-> Null,
     final_spread_high |-> Null,
     market_maker |-> NoUser,
     market_maker_spread_low |-> Null,
     market_maker_spread_high |-> Null,
     settlement_price |-> Null,
     settlement_preview_calculated |-> FALSE,
     settlement_confirmed |-> FALSE,
     settled_at |-> Null,
     outcome |-> Null]

Init ==
    /\ now = 0
    /\ market = NewMarket
    /\ bids = {}
    /\ trades = {}
    /\ balance = [u \in Users |-> InitialBalance]
    /\ preview = NoReport
    /\ executions = 0
    /\ loaded = [p \in Sweepers |-> {}]

----------------------------------------------------------------------------
(* Actions *)

\* timezone.now() advances
AdvanceClock ==
    /\ \E t \in ClockValues : t > now /\ now' = t
    /\ UNCHANGED <<loaded, market, bids, trades, balance, preview, executions>>

\* SpreadBid.objects.create(...) -> SpreadBid.save() -> clean()
PlaceBid ==
    \E b \in BidInputs :
        LET ok == SpreadBid_clean(market, b[1], b[2], b[3], now)
        IN  /\ Cardinality(bids) < MaxBids
            /\ bids' = IF ok
                       THEN bids \cup {[user |-> b[1], spread_low |-> b[2],
                                        spread_high |-> b[3], bid_time |-> now]}
                       ELSE bids
            /\ UNCHANGED <<loaded, now, market, trades, balance, preview, executions>>

\* Market.current_best_spread_width: None while the market has no bid
current_best_spread_width(bs) ==
    IF bs = {} THEN Null
    ELSE spread_width(CHOOSE b \in bs : b \in best_spread_bid(bs))

\* SpreadBidCreateSerializer.validate(): "invalid" for a ValidationError
\* (answer 400), "error" for any other exception (answer 500).  After the
\* status check it reads market.spread_bidding_close, an attribute Market
\* does not have (the field is spread_bidding_close_trading_open), so no
\* request gets past that line.
SpreadBidCreateSerializer_validate(m, bs, u, lo, hi, t) ==
    IF ~is_verified(u) THEN "invalid"
    ELSE IF m.status # "CREATED" THEN "invalid"
    ELSE "error"

\* POST place_spread_bid: the stored bids after the request on market m
place_spread_bid(m, bs, u, lo, hi, t) ==
    IF SpreadBidCreateSerializer_validate(m, bs, u, lo, hi, t) = "valid"
    THEN bs \cup {[user |-> u, spread_low |-> lo, spread_high |-> hi,
                   bid_time |-> t]}
    ELSE bs

\* POST place_spread_bid: get_object() runs the sweep first
PlaceSpreadBid ==
    \E w0 \in Winners(bids), b \in BidInputs :
        LET m0 == auto_activate_eligible_markets(market, bids, now, w0)
        IN  /\ market' = m0
            /\ bids' = place_spread_bid(m0, bids, b[1], b[2], b[3], now)
            /\ UNCHANGED <<loaded, now, trades, balance, preview, executions>>

\* GET list / retrieve / stats: the lazy sweep of MarketViewSet.get_queryset
ReadMarkets ==
    \E w \in Winners(bids) :
        /\ market' = auto_activate_eligible_markets(market, bids, now, w)
        /\ UNCHANGED <<loaded, now, bids, trades, balance, preview, executions>>

\* manage.py auto_activate_markets (without --dry-run)
SweepCommand ==
    \E w \in Winners(bids) :
        LET selected == /\ market.status = "CREATED"
                        /\ market.spread_bidding_close_trading_open < now
                        /\ market.final_spread_low = Null
                        /\ market.final_spread_high = Null
        IN  /\ IF selected /\ should_auto_activate(market, bids, now)
               THEN /\ market' = auto_activate_market(market, bids, now, w).m
               ELSE IF selected /\ should_delay_for_no_bids(market, bids, now)
               THEN /\ market' = delay_market_for_no_bids(market, bids, now).m
               ELSE /\ market' = market
            /\ UNCHANGED <<loaded, now, bids, trades, balance, preview, executions>>

\* POST manual_activate (admin): the stored row after the request;
\* get_object() runs the sweep first (w0), w is the bid min() returns
manual_activate(m, bs, t, w0, w) ==
    LET m0 == auto_activate_eligible_markets(m, bs, t, w0)
        has_bids == bs # {}
        bidding_closed == t >= m0.spread_bidding_close_trading_open
        admin_override == ~bidding_closed \/ ~has_bids
        rejected == \/ m0.status # "CREATED"
                    \/ m0.final_spread_low # Null
                    \/ m0.final_spread_high # Null
                    \/ (admin_override /\ ~has_bids)
        m1 == IF admin_override
              THEN Market_save(m0,
                     [m0 EXCEPT !.spread_bidding_close_trading_open =
                                    t - Minute], t)
              ELSE m0
        result == auto_activate_market(m1, bs, t, w)
        m2 == IF result.success /\ admin_override
              THEN Market_save(result.m,
                     [result.m EXCEPT !.spread_bidding_close_trading_open =
                                    t - Minute], t)
              ELSE IF ~result.success /\ admin_override
              THEN Market_save(m1,
                     [m1 EXCEPT !.spread_bidding_close_trading_open =
                                    m0.spread_bidding_close_trading_open], t)
              ELSE result.m
    IN  IF rejected THEN m0 ELSE m2

ManualActivate ==
    \E w0 \in Winners(bids), w \in Winners(bids) :
        /\ market' = manual_activate(market, bids, now, w0, w)
        /\ UNCHANGED <<loaded, now, bids, trades, balance, preview, executions>>

Trade_clean_owner_unchecked(m, u, position, price, price_is_float, quantity, t) ==
    /\ is_trading_active(m, t)
    /\ ~is_staff(u)
    /\ (m.market_maker_spread_low # Null /\ m.market_maker_spread_high # Null)
          => /\ price_is_float
             /\ IF position = "LONG"
                THEN ~(price - m.market_maker_spread_high > Cent
                       \/ m.market_maker_spread_high - price > Cent)
                ELSE ~(price - m.market_maker_spread_low > Cent
                       \/ m.market_maker_spread_low - price > Cent)
    /\ quantity > 0

\* Trade.clean(): TRUE iff nothing is raised.  The price check computes
\* abs(self.price - float(edge)): with self.price a Decimal (the value of a
\* DecimalField of the market) the subtraction raises TypeError; it evaluates
\* only when self.price is a float (passed as one, or read from the
\* FloatField Trade.price).
Trade_clean(m, u, position, price, price_is_float, quantity, t) ==
    /\ is_trading_active(m, t)
    /\ u # m.market_maker
    /\ ~is_staff(u)
    /\ u # m.created_by
    /\ (m.market_maker_spread_low # Null /\ m.market_maker_spread_high # Null)
          => /\ price_is_float
             /\ IF position = "LONG"
                THEN ~(price - m.market_maker_spread_high > Cent
                       \/ m.market_maker_spread_high - price > Cent)
                ELSE ~(price - m.market_maker_spread_low > Cent
                       \/ m.market_maker_spread_low - price > Cent)
    /\ quantity > 0

UniqueTogether_unchecked(trs, u) == TRUE

\* unique_together = ['market', 'user'] checked by the INSERT
UniqueTogether(trs, u) == \A x \in trs : x.user # u

\* Price is determined by market maker's spread (place_trade)
TradePrice(m, position) ==
    IF position = "LONG" THEN m.market_maker_spread_high
    ELSE m.market_maker_spread_low

\* Trade.objects.create(market, user, position, price=float(...), quantity):
\* Trade.save() runs clean(), then the INSERT checks unique_together
CreateTrade ==
    \E c \in TradeCreations :
        LET u == c[1]
            position == c[2]
            price == c[4] + (IF c[3] = "high"
                             THEN market.market_maker_spread_high
                             ELSE market.market_maker_spread_low)
            quantity == c[5]
            ok == /\ Trade_clean(market, u, position, price, TRUE, quantity,
                                 now)
                  /\ UniqueTogether(trades, u)
        IN  /\ trades' = IF ok
                         THEN trades \cup {[user |-> u, position |-> position,
                                 price |-> price, quantity |-> quantity,
                                 trade_time |-> now, is_settled |-> FALSE,
                                 profit_loss |-> Null,
                                 settlement_amount |-> Null]}
                         ELSE trades
            /\ UNCHANGED <<loaded, now, market, bids, balance, preview, executions>>

\* POST place_trade: the price it passes to Trade.objects.create is the
\* Decimal read from the market row
place_trade_creates(w0, r) ==
        LET m0 == auto_activate_eligible_markets(market, bids, now, w0)
            u == r[1]
            position == r[2]
            quantity == r[3]
            price == TradePrice(m0, position)
            total_cost == price * quantity
        IN  /\ m0.status = "OPEN"
            /\ m0.market_maker # NoUser
            /\ m0.market_maker # u
            /\ quantity > 0
            /\ ~(balance[u] < total_cost)
            /\ Trade_clean(m0, u, position, price, FALSE, quantity, now)
            /\ UniqueTogether(trades, u)

\* the rows of the market's trades once the request has been answered
place_trade_rows(w0, r) ==
        LET m0 == auto_activate_eligible_markets(market, bids, now, w0)
        IN  IF place_trade_creates(w0, r)
            THEN trades \cup {[user |-> r[1], position |-> r[2],
                               price |-> TradePrice(m0, r[2]),
                               quantity |-> r[3],
                               trade_time |-> now, is_settled |-> FALSE,
                               profit_loss |-> Null,
                               settlement_amount |-> Null]}
            ELSE trades

place_trade(w0, r) ==
        LET m0 == auto_activate_eligible_markets(market, bids, now, w0)
            total_cost == TradePrice(m0, r[2]) * r[3]
        IN  /\ market' = m0
            /\ trades' = place_trade_rows(w0, r)
            /\ balance' = IF place_trade_creates(w0, r)
                          THEN [balance EXCEPT ![r[1]] = @ - total_cost]
                          ELSE balance
            /\ UNCHANGED <<loaded, now, bids, preview, executions>>

PlaceTrade == \E w0 \in Winners(bids), r \in TradeRequests : place_trade(w0, r)

CancelTrade_unchecked ==
    \E w0 \in Winners(bids), u \in Users :
        LET m0 == auto_activate_eligible_markets(market, bids, now, w0)
            mine == {x \in trades : x.user = u}
        IN  /\ market' = m0
            /\ trades' = IF mine # {} THEN trades \ {CHOOSE x \in mine : TRUE}
                         ELSE trades
            /\ UNCHANGED <<loaded, now, bids, balance, preview, executions>>

\* DELETE cancel_trade
CancelTrade ==
    \E w0 \in Winners(bids), u \in Users :
        LET m0 == auto_activate_eligible_markets(market, bids, now, w0)
            mine == {x \in trades : x.user = u}
            ok == is_trading_active(m0, now) /\ mine # {}
        IN  /\ market' = m0
            /\ trades' = IF ok THEN trades \ {CHOOSE x \in mine : TRUE}
                         ELSE trades
            /\ UNCHANGED <<loaded, now, bids, balance, preview, executions>>

\* POST close-trading (admin)
CloseTrading ==
    LET ok == market.status = "OPEN"
    IN  /\ market' = IF ok
                     THEN Market_save(market,
                            [market EXCEPT !.status = "CLOSED"], now)
                     ELSE market
        /\ UNCHANGED <<loaded, now, bids, trades, balance, preview, executions>>

\* POST <id>/settle/ (legacy settle_market): closes an OPEN market
SettleMarketLegacy ==
    /\ market' = IF market.status = "OPEN"
                 THEN Market_save(market,
                        [market EXCEPT !.status = "CLOSED"], now)
                 ELSE market
    /\ UNCHANGED <<loaded, now, bids, trades, balance, preview, executions>>

\* POST auto-settle/ (admin): Market.auto_settle_if_time on the due markets
AutoSettleMarkets ==
    LET due == market.status = "OPEN" /\ market.trading_close <= now
    IN  /\ market' = IF due /\ should_auto_close(market, now)
                     THEN Market_save(market, AutoClosed(market, now), now)
                     ELSE market
        /\ UNCHANGED <<loaded, now, bids, trades, balance, preview, executions>>

Abs(x) == IF x < 0 THEN 0 - x ELSE x

\* Decimal.quantize(Decimal('0.01'), rounding=ROUND_UP): away from zero
QuantizeRoundUp(x) ==
    LET a == Abs(x)
        q == ((a + Cent - 1) \div Cent) * Cent
    IN  IF x < 0 THEN 0 - q ELSE q

set_settlement_price_overwriting(m, price, t) ==
    IF /\ m.status = "CLOSED"
       /\ MinSettlementPrice <= price
       /\ price <= MaxSettlementPrice
    THEN Market_save(m, [m EXCEPT
                           !.settlement_price = QuantizeRoundUp(price),
                           !.settlement_preview_calculated = FALSE,
                           !.settlement_confirmed = FALSE], t)
    ELSE m

set_settlement_price_status_unchecked(m, price, t) ==
    IF /\ m.settlement_price = Null
       /\ MinSettlementPrice <= price
       /\ price <= MaxSettlementPrice
    THEN Market_save(m, [m EXCEPT
                           !.settlement_price = QuantizeRoundUp(price),
                           !.settlement_preview_calculated = FALSE,
                           !.settlement_confirmed = FALSE], t)
    ELSE m

\* Market.set_settlement_price(price) behind the view's own checks: the
\* stored row after the request
set_settlement_price(m, price, t) ==
    IF /\ m.status = "CLOSED"
       /\ m.settlement_price = Null
       /\ MinSettlementPrice <= price
       /\ price <= MaxSettlementPrice
    THEN Market_save(m, [m EXCEPT
                           !.settlement_price = QuantizeRoundUp(price),
                           !.settlement_preview_calculated = FALSE,
                           !.settlement_confirmed = FALSE], t)
    ELSE m

\* POST set-settlement-price (admin)
SetSettlementPrice ==
    \E price \in PriceInputs :
        /\ market' = set_settlement_price(market, price, now)
        /\ UNCHANGED <<loaded, now, bids, trades, balance, preview, executions>>

\* P&L of one trade in Market.calculate_settlement_preview()
trade_pnl(t, settlement_price) ==
    QuantizeRoundUp(IF t.position = "LONG"
                    THEN settlement_price - t.price
                    ELSE t.price - settlement_price)

RECURSIVE market_maker_total(_, _)
\* market_maker_total -= trade_pnl, accumulated over the trades
market_maker_total(trs, settlement_price) ==
    IF trs = {} THEN 0
    ELSE LET t == CHOOSE x \in trs : TRUE
         IN  market_maker_total(trs \ {t}, settlement_price)
                 - trade_pnl(t, settlement_price)

\* settlement_data returned by Market.calculate_settlement_preview()
calculate_settlement_preview(m, trs) ==
    [computed |-> TRUE,
     settlement_price |-> m.settlement_price,
     trades |-> {[user |-> t.user, position |-> t.position,
                  trade_price |-> t.price,
                  profit_loss |-> trade_pnl(t, m.settlement_price)] : t \in trs},
     market_maker_impact |->
         QuantizeRoundUp(market_maker_total(trs, m.settlement_price))]

SettlementPreview_settling ==
    /\ market.settlement_price # Null
    /\ preview' = calculate_settlement_preview(market, trades)
    /\ market' = Market_save(market,
                   [market EXCEPT !.settlement_preview_calculated = TRUE], now)
    /\ trades' = {[t EXCEPT !.is_settled = TRUE,
                            !.profit_loss =
                                trade_pnl(t, market.settlement_price)] :
                     t \in trades}
    /\ UNCHANGED <<loaded, now, bids, balance, executions>>

\* GET settlement-preview (admin)
SettlementPreview ==
    /\ market.settlement_price # Null
    /\ preview' = calculate_settlement_preview(market, trades)
    /\ market' = Market_save(market,
                   [market EXCEPT !.settlement_preview_calculated = TRUE], now)
    /\ UNCHANGED <<loaded, now, bids, trades, balance, executions>>

\* The orders in which trades.all() (ordering = ['-trade_time']) can list trs
TradeOrders(trs) ==
    {o \in [1..Cardinality(trs) -> trs] :
        /\ \A i, j \in 1..Cardinality(trs) : i # j => o[i] # o[j]
        /\ \A i, j \in 1..Cardinality(trs) :
              i < j => o[i].trade_time >= o[j].trade_time}

ReportedPnl(report, u) ==
    (CHOOSE d \in report.trades : d.user = u).profit_loss

RECURSIVE SettleTrades(_, _, _, _, _, _, _)
\* The loop "for trade_data in settlement_data['trades']" of
\* Market.execute_settlement(); it stops at the first trade.save() that raises.
SettleTrades(order, i, m, report, bal, trs, t) ==
    IF i > Len(order) THEN [completed |-> TRUE, balance |-> bal, trades |-> trs]
    ELSE LET tr == order[i]
             pnl == ReportedPnl(report, tr.user)
             bal1 == [bal EXCEPT ![tr.user] = @ + pnl]
             settled == [tr EXCEPT !.settlement_amount = m.settlement_price,
                                   !.profit_loss = pnl,
                                   !.is_settled = TRUE]
         IN  IF Trade_clean(m, tr.user, tr.position, tr.price, TRUE,
                            tr.quantity, t)
             THEN SettleTrades(order, i + 1, m, report, bal1,
                               (trs \ {tr}) \cup {settled}, t)
             ELSE [completed |-> FALSE, balance |-> bal1, trades |-> trs]

\* POST execute-settlement (admin) -> Market.execute_settlement
execute_settlement_error_preview_unchecked(m, confirmed) ==
    IF ~confirmed THEN "Admin confirmation required"
    ELSE IF m.status = "SETTLED" THEN "Market already settled"
    ELSE IF m.settlement_price = Null
    THEN "Settlement price must be set before calculating preview"
    ELSE "none"

\* The refusal of a call of the execute_settlement view, "none" when the
\* call goes on to settle: the view tests the confirmed flag, then
\* Market.execute_settlement tests the preview flag and the status, then
\* calculate_settlement_preview needs a settlement price
execute_settlement_error(m, confirmed) ==
    IF ~confirmed THEN "Admin confirmation required"
    ELSE IF ~m.settlement_preview_calculated
    THEN "Must calculate settlement preview before executing"
    ELSE IF m.status = "SETTLED" THEN "Market already settled"
    ELSE IF m.settlement_price = Null
    THEN "Settlement price must be set before calculating preview"
    ELSE "none"

execute_settlement(confirmed, order) ==
        LET passes == execute_settlement_error(market, confirmed) = "none"
            report == calculate_settlement_preview(market, trades)
            m1 == Market_save(market,
                    [market EXCEPT !.settlement_preview_calculated = TRUE], now)
            loop == SettleTrades(order, 1, m1, report, balance, trades, now)
            bal2 == IF m1.market_maker # NoUser
                    THEN [loop.balance EXCEPT ![m1.market_maker] =
                                @ + report.market_maker_impact]
                    ELSE loop.balance
            m2 == Market_save(m1, [m1 EXCEPT !.status = "SETTLED",
                                             !.settled_at = now,
                                             !.settlement_confirmed = TRUE], now)
        IN  /\ passes
            /\ executions < MaxExecutions
            /\ executions' = executions + 1
            /\ preview' = report
            /\ trades' = loop.trades
            /\ balance' = IF loop.completed THEN bal2 ELSE loop.balance
            /\ market' = IF loop.completed THEN m2 ELSE m1
            /\ UNCHANGED <<loaded, now, bids>>

\* POST execute-settlement (admin)
ExecuteSettlement ==
    \E confirmed \in BOOLEAN, order \in TradeOrders(trades) :
        execute_settlement(confirmed, order)

\* POST reopen-trading (admin) -> Market.reopen_trading
ReopenTrading ==
    \E new_trading_close \in {now, now + Minute} :
        /\ can_be_reopened(market)
        /\ ~(new_trading_close <= now)
        /\ ~(new_trading_close <= market.spread_bidding_close_trading_open)
        /\ market' = Market_save(market,
                       [market EXCEPT !.status = "OPEN",
                                      !.trading_close = new_trading_close,
                                      !.settlement_price = Null,
                                      !.settlement_preview_calculated = FALSE,
                                      !.settlement_confirmed = FALSE], now)
        /\ UNCHANGED <<loaded, now, bids, trades, balance, preview, executions>>

\* valid_transitions of MarketUpdateSerializer.validate
valid_transitions(status) ==
    CASE status = "CREATED" -> {"OPEN"}
      [] status = "OPEN" -> {"CLOSED"}
      [] status = "CLOSED" -> {"SETTLED"}
      [] OTHER -> {}

\* MarketUpdateSerializer.validate: TRUE iff the data is accepted
MarketUpdateSerializer_validate(m, new_status, outcome, low, high) ==
    /\ new_status # m.status => new_status \in valid_transitions(m.status)
    /\ ~(new_status = "SETTLED" /\ ~Truthy(outcome))
    /\ (low # Null /\ high # Null) => ~(low >= high)
    /\ (low # Null) <=> (high # Null)

\* PUT/PATCH <pk>/ (admin): MarketUpdateSerializer, after the lazy sweep
AdminUpdate ==
    \E w0 \in Winners(bids), data \in UpdateInputs :
        LET m0 == auto_activate_eligible_markets(market, bids, now, w0)
            new_status == IF data[1] = "keep" THEN m0.status ELSE data[1]
            outcome == data[2]
            ok == MarketUpdateSerializer_validate(m0, new_status, outcome,
                                                  data[3], data[4])
            m1 == [m0 EXCEPT
                     !.status = new_status,
                     !.outcome = IF outcome = Null THEN @ ELSE outcome,
                     !.final_spread_low = IF data[3] = Null THEN @ ELSE data[3],
                     !.final_spread_high = IF data[4] = Null THEN @ ELSE data[4]]
        IN  /\ market' = IF ok THEN Market_save(m0, m1, now) ELSE m0
            /\ UNCHANGED <<loaded, now, bids, trades, balance, preview, executions>>

\* POST <market_id>/set_market_maker/: the stored market after the request
set_market_maker(m, u, lo, hi, t) ==
    IF m.status # "OPEN" THEN m
    ELSE IF m.market_maker # NoUser THEN m
    ELSE IF lo >= hi THEN m
    ELSE IF lo < 0 \/ hi > 100 THEN m
    ELSE Market_save(m, [m EXCEPT !.market_maker = u,
                                  !.market_maker_spread_low = ToDecimal(lo),
                                  !.market_maker_spread_high = ToDecimal(hi)], t)

SetMarketMaker ==
    \E r \in MakerInputs :
        /\ market' = set_market_maker(market, r[1], r[2], r[3], now)
        /\ UNCHANGED <<loaded, now, bids, trades, balance, preview, executions>>

\* POST <pk>/settle/ (MarketViewSet.settle, admin)
Settle ==
    \E w0 \in Winners(bids), outcome \in {1} :
        LET m0 == auto_activate_eligible_markets(market, bids, now, w0)
        IN  /\ market' = IF can_be_settled(m0)
                         THEN Market_save(m0, [m0 EXCEPT !.status = "SETTLED",
                                                         !.outcome = outcome], now)
                         ELSE m0
            /\ UNCHANGED <<loaded, now, bids, trades, balance, preview, executions>>


Next ==
    \/ AdvanceClock
    \/ PlaceBid
    \/ PlaceSpreadBid
    \/ ReadMarkets
    \/ SweepCommand
    \/ ManualActivate
    \/ CreateTrade
    \/ PlaceTrade
    \/ CancelTrade
    \/ CloseTrading
    \/ SettleMarketLegacy
    \/ AutoSettleMarkets
    \/ SetSettlementPrice
    \/ SettlementPreview
    \/ ExecuteSettlement
    \/ ReopenTrading
    \/ AdminUpdate
    \/ SetMarketMaker
    \/ Settle

Spec == Init /\ [][Next]_vars

----------------------------------------------------------------------------
(* The lazy sweep of two requests in flight at once *)

\* for market in eligible_markets: the queryset is evaluated and request p
\* holds the Market object it has read
LoadEligibleMarkets ==
    \E p \in Sweepers :
        /\ loaded[p] = {}
        /\ SweepEligible(market, bids, now)
        /\ loaded' = [loaded EXCEPT ![p] = {market}]
        /\ UNCHANGED <<now, market, bids, trades, balance, preview,
                       executions>>

\* market.auto_activate_market() on the object request p holds: the checks
\* read the object's own fields, self.save() writes every column of the row
ActivateLoadedMarket ==
    \E p \in Sweepers : \E m \in loaded[p], w \in Winners(bids) :
        LET result == auto_activate_market(m, bids, now, w)
        IN  /\ market' = IF result.success THEN result.m ELSE market
            /\ loaded' = [loaded EXCEPT ![p] = {}]
            /\ UNCHANGED <<now, bids, trades, balance, preview, executions>>

NextRace ==
    \/ AdvanceClock
    \/ PlaceBid
    \/ LoadEligibleMarkets
    \/ ActivateLoadedMarket
    \/ CloseTrading
    \/ SetSettlementPrice

SpecRace == Init /\ [][NextRace]_vars

----------------------------------------------------------------------------
(* Properties of the auction resolver and of the status machine *)

\* The market row carries the spread and the bidder of bid b
AppliedBid(m, b) ==
    /\ m.final_spread_low = b.spread_low
    /\ m.final_spread_high = b.spread_high
    /\ m.market_maker = b.user

NarrowestBid(bs, b) == \A c \in bs : spread_width(b) <= spread_width(c)

EarliestOfItsWidth(bs, b) ==
    \A c \in bs : spread_width(c) = spread_width(b) => b.bid_time <= c.bid_time

\* C1: whenever the sweep on read, the sweep command or a manual activation
\* takes a market out of CREATED, the spread and maker it writes are those of
\* a bid of minimum width that is, among the bids of that width, the earliest.
C1_BestBidIsNarrowestThenEarliest ==
    [][(/\ market.status = "CREATED"
        /\ market'.status # "CREATED"
        /\ (ReadMarkets \/ SweepCommand \/ ManualActivate))
        => \E b \in bids : /\ AppliedBid(market', b)
                           /\ NarrowestBid(bids, b)
                           /\ EarliestOfItsWidth(bids, b)]_vars

\* An activated market whose winning bid was placed after a wider bid
C1_Witness ==
    /\ market.status = "OPEN"
    /\ \E b \in bids, c \in bids :
          /\ AppliedBid(market, b)
          /\ market.created_by = b.user
          /\ spread_width(b) < spread_width(c)
          /\ c.bid_time < b.bid_time

\* C2: a market that has left CREATED has a non-null positive final spread
\* with low < high and a maker, all three taken from one of its own bids (so
\* a market without bids never leaves CREATED).
C2_ResolvedFromOwnBid ==
    market.status # "CREATED" =>
        /\ market.final_spread_low # Null
        /\ market.final_spread_high # Null
        /\ 0 < market.final_spread_low
        /\ market.final_spread_low < market.final_spread_high
        /\ market.market_maker # NoUser
        /\ \E b \in bids : AppliedBid(market, b)

LegalTransitions ==
    {<<"CREATED", "OPEN">>, <<"OPEN", "CLOSED">>, <<"CLOSED", "SETTLED">>,
     <<"CLOSED", "OPEN">>}

\* C3: every change of status made by one operation is CREATED->OPEN,
\* OPEN->CLOSED, CLOSED->SETTLED or CLOSED->OPEN; no operation crosses two
\* states and no operation changes the status of a SETTLED market.
C3_OnlyLegalTransitions ==
    [][market'.status # market.status
        => <<market.status, market'.status>> \in LegalTransitions]_vars

\* C4: a SETTLED market has a settlement price, both settlement flags set and
\* every trade settled with a profit_loss, as execute_settlement leaves it.
C4_SettledOnlyByExecution ==
    market.status = "SETTLED" =>
        /\ market.settlement_price # Null
        /\ market.settlement_preview_calculated
        /\ market.settlement_confirmed
        /\ \A t \in trades : t.is_settled /\ t.profit_loss # Null

----------------------------------------------------------------------------
(* Properties of settlement *)

AllTradesSettled(trs) == \A t \in trs : t.is_settled /\ t.profit_loss # Null

\* C5: an execute_settlement call that follows an earlier one on the same
\* market changes no trade and no balance (each profit_loss and the maker
\* impact are added to balances at most once per market).
C5_SecondExecutionChangesNothing ==
    [][(executions >= 1 /\ executions' # executions)
        => (trades' = trades /\ balance' = balance)]_vars

\* C6: execute_settlement is all-or-nothing: either every trade is settled and
\* the market is SETTLED, or no trade, no balance and no status has changed.
C6_ExecutionAllOrNothing ==
    [][executions' # executions
        => \/ AllTradesSettled(trades') /\ market'.status = "SETTLED"
           \/ /\ trades' = trades
              /\ balance' = balance
              /\ market'.status = market.status]_vars

\* C7: an execute_settlement call made with the preview calculated, the
\* confirmation given and the market not yet SETTLED writes profit_loss and
\* is_settled on every trade, adds each P&L to its trader's balance, adds the
\* negated total to the maker's balance and sets the status to SETTLED.
C7_ExecutionSettlesEveryTrade ==
    [][executions' # executions
        => /\ market'.status = "SETTLED"
           /\ \A t \in trades :
                 /\ \E x \in trades' :
                       /\ x.user = t.user
                       /\ x.is_settled
                       /\ x.profit_loss = trade_pnl(t, market.settlement_price)
                 /\ balance'[t.user] =
                       balance[t.user] + trade_pnl(t, market.settlement_price)
           /\ market.market_maker # NoUser =>
                 balance'[market.market_maker] =
                     balance[market.market_maker]
                         + market_maker_total(trades, market.settlement_price)]_vars

\* Rounding to two decimals, halves away from zero
RoundHalfUp(x) ==
    LET q == ((2 * Abs(x) + Cent) \div (2 * Cent)) * Cent
    IN  IF x < 0 THEN 0 - q ELSE q

RECURSIVE SumOfReportedPnl(_)
SumOfReportedPnl(ds) ==
    IF ds = {} THEN 0
    ELSE LET d == CHOOSE x \in ds : TRUE
         IN  d.profit_loss + SumOfReportedPnl(ds \ {d})

\* C8: the settlement preview lists every trade of the market, reports for a
\* LONG trade the rounded (settlement price - trade price), for a SHORT trade
\* the rounded (trade price - settlement price), and reports as the maker's
\* impact the negated sum of the reported P&Ls.
C8_PreviewReportsPnl ==
    preview.computed =>
        /\ \A t \in trades : \E d \in preview.trades :
              /\ d.user = t.user
              /\ d.position = t.position
              /\ d.trade_price = t.price
        /\ \A d \in preview.trades :
              d.profit_loss =
                  RoundHalfUp(IF d.position = "LONG"
                              THEN preview.settlement_price - d.trade_price
                              ELSE d.trade_price - preview.settlement_price)
        /\ preview.market_maker_impact = 0 - SumOfReportedPnl(preview.trades)

----------------------------------------------------------------------------
(* Properties of trades *)

\* C9: a market never holds two trades of the same user.
C9_OneTradePerUser ==
    \A a \in trades, b \in trades : a.user = b.user => a = b

\* A trader holds a trade placed earlier while trading is still active, so a
\* further Trade.objects.create by the same trader reaches the INSERT
C9_Witness ==
    /\ is_trading_active(market, now)
    /\ \E t \in trades :
          /\ t.trade_time < now
          /\ Trade_clean(market, t.user, "LONG",
                         market.market_maker_spread_high, TRUE, 2, now)
          /\ ~UniqueTogether(trades, t.user)

\* C10: on a market with a final spread every stored trade has the price
\* final_spread_high (LONG) or final_spread_low (SHORT).
C10_TradePriceIsFinalSpreadEdge ==
    (market.final_spread_low # Null /\ market.final_spread_high # Null) =>
        \A t \in trades :
            t.price = IF t.position = "LONG"
                      THEN ToDecimal(market.final_spread_high)
                      ELSE ToDecimal(market.final_spread_low)

\* C11: a stored trade always has its cost debited: while no settlement has
\* credited anything, the holder of a stored trade has paid price * quantity
\* out of the starting balance, and placement never makes a balance negative.
C11_StoredTradeCostDebited ==
    /\ \A u \in Users : balance[u] >= 0
    /\ executions = 0 =>
          \A t \in trades :
              balance[t.user] + t.price * t.quantity <= InitialBalance

\* C12: a user who already holds a trade on a trading-active market and calls
\* place_trade with a position and a quantity afterwards holds exactly one
\* trade, carrying that position and that quantity.
C12_SecondPlacementUpdates ==
    \A w0 \in Winners(bids), r \in TradeRequests :
        (/\ is_trading_active(market, now)
         /\ r[3] > 0
         /\ \E t \in trades : t.user = r[1])
        => LET rows == place_trade_rows(w0, r)
           IN  /\ \E t \in rows : /\ t.user = r[1]
                                  /\ t.position = r[2]
                                  /\ t.quantity = r[3]
               /\ \A x \in rows, y \in rows : x.user = y.user => x = y

\* C13: no stored trade is held by the market's creator, by its market maker
\* or by an administrator.
C13_NoTradeByCreatorMakerOrAdmin ==
    \A t \in trades : /\ t.user # market.created_by
                      /\ t.user # market.market_maker
                      /\ ~is_staff(t.user)

\* Trading is active on a market whose maker is an ordinary user; another
\* trader holds a trade, and the maker's own Trade.objects.create at the
\* maker's edge is refused by Trade.clean
C13_Witness ==
    /\ is_trading_active(market, now)
    /\ market.market_maker \in Users \ {"admin"}
    /\ trades # {}
    /\ \E c \in TradeCreations :
          /\ c[1] = market.market_maker
          /\ c[4] = 0 /\ c[5] > 0
          /\ UniqueTogether(trades, c[1])
          /\ ~Trade_clean(market, c[1], c[2],
                          TradePrice(market, c[2]), TRUE, c[5], now)

\* C14: a trade is admitted only for a verified user: no unverified user ever
\* holds a trade.
C14_TradesOnlyByVerifiedUsers ==
    \A t \in trades : is_verified(t.user)

\* The market row after one delay: both window ends one day later, every
\* other field as before
DelayedByOneDay(m) ==
    [m EXCEPT !.spread_bidding_close_trading_open = @ + Day,
              !.trading_close = @ + Day]

\* C15: on a CREATED market with zero bids whose bidding window has closed,
\* activation fails and delay succeeds; the delay moves the bidding close and
\* the trading close forward by exactly one day and changes nothing else.
C15_DelayAdvancesByOneDay ==
    (/\ market.status = "CREATED"
     /\ bids = {}
     /\ now > market.spread_bidding_close_trading_open)
    => /\ \A w \in Winners(bids) :
              ~auto_activate_market(market, bids, now, w).success
       /\ delay_market_for_no_bids(market, bids, now).success
       /\ delay_market_for_no_bids(market, bids, now).m
              = DelayedByOneDay(market)

\* A CREATED market past its bidding close that has a bid and no final spread
AwaitsActivation(m, bs, t) ==
    /\ m.status = "CREATED"
    /\ t > m.spread_bidding_close_trading_open
    /\ bs # {}
    /\ m.final_spread_low = Null
    /\ m.final_spread_high = Null

\* C16: the sweep run by a read of markets at time now leaves no market
\* CREATED with now past its bidding close, a bid and an unresolved spread:
\* it has activated such a market with its best bid.
C16_ReadActivatesEligibleMarket ==
    \A w \in Winners(bids) :
        LET m1 == auto_activate_eligible_markets(market, bids, now, w)
        IN  /\ ~AwaitsActivation(m1, bids, now)
            /\ AwaitsActivation(market, bids, now)
                  => /\ m1.status # "CREATED"
                     /\ AppliedBid(m1, w)
                     /\ NarrowestBid(bids, w)
                     /\ EarliestOfItsWidth(bids, w)

\* A read is about to sweep a market with two bids whose bidding has closed
C16_Witness ==
    /\ AwaitsActivation(market, bids, now)
    /\ Cardinality(bids) >= 2
    /\ now < market.trading_close

\* C17: the lazy sweep run by a market read or an admin action, finding a
\* CREATED market with a closed bidding window, zero bids and no final spread,
\* delays it by one day.
C17_LazySweepDelaysMarketWithoutBids ==
    should_delay_for_no_bids(market, bids, now)
    => \A w \in Winners(bids) :
          auto_activate_eligible_markets(market, bids, now, w)
              = DelayedByOneDay(market)

\* C18: every write of the market row and every run of auto_settle_markets
\* leaves no market OPEN with trading_close <= now, so an OPEN market whose
\* trading close has been reached is stored as CLOSED; and auto_settle_markets
\* never moves a market from OPEN to CLOSED while now < trading_close.
C18_AutoCloseAtTradingClose ==
    [][/\ market' # market
          => ~(market'.status = "OPEN" /\ market'.trading_close <= now)
       /\ (should_auto_close(market, now) /\ market' # market)
          => market'.status # "OPEN"
       /\ (/\ market.status = "OPEN"
           /\ now < market.trading_close
           /\ market'.status = "CLOSED")
          => ~AutoSettleMarkets]_vars

\* An OPEN market at the very minute of its trading close: the auto-close
\* check of the next write or of auto_settle_markets stores it as CLOSED
C18_Witness ==
    /\ should_auto_close(market, now)
    /\ now = market.trading_close
    /\ Market_save(market, market, now).status = "CLOSED"

\* C19: in every state the market's timestamps are strictly ordered:
\* spread_bidding_open < spread_bidding_close_trading_open < trading_close.
C19_WindowTimestampsOrdered ==
    /\ market.spread_bidding_open < market.spread_bidding_close_trading_open
    /\ market.spread_bidding_close_trading_open < market.trading_close

\* C20: execute_settlement called without the confirmation flag is refused
\* for lack of confirmation, and called with it while
\* settlement_preview_calculated is false is refused for lack of a preview;
\* a refused call changes no trade, no balance and no market field, so every
\* call that changes anything was confirmed and found the preview flag set.
C20_RefusedExecutionChangesNothing ==
    [][/\ execute_settlement_error(market, FALSE)
            = "Admin confirmation required"
       /\ ~market.settlement_preview_calculated
            => execute_settlement_error(market, TRUE)
                  = "Must calculate settlement preview before executing"
       /\ executions' # executions
            => \A confirmed \in BOOLEAN, order \in TradeOrders(trades) :
                  execute_settlement(confirmed, order)
                      => confirmed /\ market.settlement_preview_calculated]_vars

\* A closed market with a settlement price and a trade whose preview flag is
\* not set: a confirmed execute_settlement is refused for lack of a preview
C20_Witness ==
    /\ market.status = "CLOSED"
    /\ market.settlement_price # Null
    /\ trades # {}
    /\ ~market.settlement_preview_calculated
    /\ execute_settlement_error(market, TRUE) # "none"
    /\ executions < MaxExecutions

\* C21: the settlement preview changes nothing but the flag
\* settlement_preview_calculated, which it sets: trades, balances and every
\* other market field stay as they were; computed again on the state it
\* leaves, it gives the same report and the same state.
C21_PreviewOnlySetsItsFlag ==
    [][((preview' # preview \/ market' # market \/ trades' # trades)
        /\ SettlementPreview)
        => /\ market' = [market EXCEPT !.settlement_preview_calculated = TRUE]
           /\ trades' = trades
           /\ balance' = balance
           /\ calculate_settlement_preview(market', trades') = preview'
           /\ Market_save(market', [market' EXCEPT
                  !.settlement_preview_calculated = TRUE], now) = market']_vars

\* A preview has been computed for a market with an unsettled trade, before
\* any execution
C21_Witness ==
    /\ preview.computed
    /\ market.settlement_preview_calculated
    /\ preview.settlement_price = market.settlement_price
    /\ executions = 0
    /\ \E t \in trades : ~t.is_settled /\ t.profit_loss = Null

\* C22: a request to set the settlement price takes effect only on a CLOSED
\* market without a settlement price, where it stores a price and resets
\* settlement_preview_calculated and settlement_confirmed; in every other
\* state it leaves the market row as it is; and no operation changes a
\* settlement price once it is set.
C22_SettlementPriceSetOnce ==
    /\ [](\A price \in PriceInputs :
            LET row == set_settlement_price(market, price, now)
            IN  IF market.status = "CLOSED" /\ market.settlement_price = Null
                THEN \/ row = market
                     \/ /\ row.settlement_price # Null
                        /\ row = [market EXCEPT
                              !.settlement_price = row.settlement_price,
                              !.settlement_preview_calculated = FALSE,
                              !.settlement_confirmed = FALSE]
                ELSE row = market)
    /\ [][market'.settlement_price # market.settlement_price
            => /\ market.settlement_price = Null
               /\ market.status = "CLOSED"
               /\ market'.status = "CLOSED"
               /\ ~market'.settlement_preview_calculated
               /\ ~market'.settlement_confirmed]_vars

\* A settlement price is stored and a preview has been computed since: a
\* further request to set the price finds the price already set
C22_Witness ==
    /\ market.status = "CLOSED"
    /\ market.settlement_price # Null
    /\ market.settlement_preview_calculated
    /\ \E price \in PriceInputs :
          /\ MinSettlementPrice <= price
          /\ price <= MaxSettlementPrice

\* C23: setting the settlement price accepts exactly the inputs between 0.01
\* and 999999.99 and stores the input rounded half-up to two decimal places
\* (a third decimal below 5 is rounded down); the stored price lies in
\* [0.01, 999999.99].
C23_SettlementPriceRoundedHalfUp ==
    /\ market.settlement_price # Null
          => /\ MinSettlementPrice <= market.settlement_price
             /\ market.settlement_price <= MaxSettlementPrice
    /\ (market.status = "CLOSED" /\ market.settlement_price = Null)
          => \A price \in PriceInputs :
                LET row == set_settlement_price(market, price, now)
                IN  IF MinSettlementPrice <= price /\ price <= MaxSettlementPrice
                    THEN row.settlement_price = RoundHalfUp(price)
                    ELSE row = market

\* C24: reopen takes effect only on a CLOSED market whose settlement price is
\* not set: a market goes back to OPEN from CLOSED or SETTLED only then, and
\* a reopen request changes the market only then.
C24_ReopenOnlyClosedWithoutPrice ==
    [][/\ (market.status \in {"CLOSED", "SETTLED"} /\ market'.status = "OPEN")
          => market.status = "CLOSED" /\ market.settlement_price = Null
       /\ (market' # market /\ ReopenTrading)
          => market.status = "CLOSED" /\ market.settlement_price = Null]_vars

\* A reopened market: OPEN with a trading close earlier than the one it was
\* created with, which only reopen_trading writes
C24_Witness ==
    /\ market.status = "OPEN"
    /\ market.trading_close < NewMarket.trading_close
    /\ market.settlement_price = Null

\* C25: after every successful reopen (a market with a maker going from
\* CLOSED back to OPEN) the trading close is strictly later than it was
\* before the reopen, settlement_preview_calculated and settlement_confirmed
\* are false, and the final spread, the market maker and the trades are
\* unchanged.
C25_ReopenMovesTradingCloseLater ==
    [][(/\ market.status = "CLOSED"
        /\ market'.status = "OPEN"
        /\ market.market_maker # NoUser)
        => /\ market'.trading_close > market.trading_close
           /\ ~market'.settlement_preview_calculated
           /\ ~market'.settlement_confirmed
           /\ market'.final_spread_low = market.final_spread_low
           /\ market'.final_spread_high = market.final_spread_high
           /\ market'.market_maker = market.market_maker
           /\ trades' = trades]_vars

\* The trade of some user has been removed by the step
TradeRemoved ==
    \E t \in trades : \A x \in trades' : x.user # t.user

\* C26: a trade is removed only by a cancel made while trading is active on
\* the market (so never on a market that is CLOSED or SETTLED or past its
\* trading close), and the removal leaves every other trade as it was; a
\* cancel that removes nothing changes no trade and no balance.
C26_CancelOnlyWhileTradingActive ==
    [][/\ TradeRemoved
          => /\ is_trading_active(market', now)
             /\ market'.status = "OPEN"
             /\ now <= market'.trading_close
             /\ trades' \subseteq trades
             /\ Cardinality(trades') = Cardinality(trades) - 1
       /\ (market' # market /\ CancelTrade /\ ~TradeRemoved)
          => trades' = trades /\ balance' = balance]_vars

\* Trading is active and a trader holds a trade stored at an earlier minute:
\* the holder's cancel removes it
C26_Witness ==
    /\ is_trading_active(market, now)
    /\ \E t \in trades : t.trade_time < now /\ ~t.is_settled
    /\ Cardinality(trades) = 2

\* The cost of the trade user u holds, 0 when u holds none
HeldCost(u) ==
    IF \E t \in trades : t.user = u
    THEN LET t == CHOOSE x \in trades : x.user = u
         IN  t.price * t.quantity
    ELSE 0

C29_LostRaceIsNoOp ==
    [][(/\ market.status # "CREATED"
        /\ ~should_auto_close(market, now)
        /\ ActivateLoadedMarket)
        => market' = market]_vars

\* C30: two confirmed execute_settlement requests for one previewed market
\* take effect once: the balance of a trader holding a trade is the starting
\* balance, or the starting balance changed by that trade's profit_loss once,
\* never twice.
C30_SettlementTakesEffectOnce ==
    market.settlement_price # Null =>
        \A t \in trades :
            balance[t.user] \in
                {InitialBalance,
                 InitialBalance + trade_pnl(t, market.settlement_price)}

\* C31: under any interleaving of one user's placement and cancel requests
\* the user holds at most one trade on the market, the cost of every stored
\* trade has been debited from the holder's balance exactly once (before any
\* settlement the balance is the starting balance less that cost), and no
\* balance is below zero.
C31_TradesUniqueAndDebitedOnce ==
    /\ \A a \in trades, b \in trades : a.user = b.user => a = b
    /\ \A u \in Users : balance[u] >= 0
    /\ executions = 0 =>
          \A t \in trades :
              balance[t.user] = InitialBalance - t.price * t.quantity

\* C32: however placements and cancels interleave with close-trading,
\* set-settlement-price, preview and execute-settlement, every trade that
\* exists on a SETTLED market was included in its settlement
\* (is_settled = TRUE).
C32_SettledMarketHoldsOnlySettledTrades ==
    market.status = "SETTLED" => \A t \in trades : t.is_settled

C34_ActivationKeepsCreatorAndWindows ==
    \A w \in Winners(bids) :
        LET result == auto_activate_market(market, bids, now, w)
        IN  result.success =>
               /\ result.m.created_by = market.created_by
               /\ result.m.spread_bidding_open = market.spread_bidding_open
               /\ result.m.spread_bidding_close_trading_open =
                      market.spread_bidding_close_trading_open
               /\ result.m.trading_close = market.trading_close

\* C35: the administrator's manual activation of a CREATED, unresolved
\* market with at least one bid leaves it OPEN with the best bid's spread,
\* that bidder as market maker and trading active at once; with no bid it
\* leaves the market as it was.
C35_ManualActivationOpensMarketWithBids ==
    (market.status = "CREATED" /\ market.final_spread_low = Null
                               /\ market.final_spread_high = Null) =>
        \A w0 \in Winners(bids), w \in Winners(bids) :
            LET m == manual_activate(market, bids, now, w0, w)
            IN  IF bids = {}
                THEN m = market
                ELSE /\ m.status = "OPEN"
                     /\ \E b \in best_spread_bid(bids) :
                            /\ m.final_spread_low = b.spread_low
                            /\ m.final_spread_high = b.spread_high
                            /\ m.market_maker = b.user
                     /\ is_trading_active(m, now)

\* C36: a bid sent through place_spread_bid is stored only if it is
\* strictly narrower than the market's current best width (initial_spread
\* while there is no bid) and than the bidder's own best; a first bid
\* narrower than initial_spread is stored.
C36_TighterBidAccepted ==
    \A b \in BidInputs :
        LET rows == place_spread_bid(market, bids, b[1], b[2], b[3], now)
            best == IF bids = {} THEN market.initial_spread
                    ELSE current_best_spread_width(bids)
        IN  /\ \A x \in rows \ bids : spread_width(x) < best
            /\ (/\ bids = {}
                /\ market.status = "CREATED"
                /\ is_spread_bidding_active(market, now)
                /\ is_verified(b[1])
                /\ b[2] < b[3]
                /\ b[3] - b[2] < market.initial_spread)
               => \E x \in rows : /\ x.user = b[1]
                                   /\ x.spread_low = b[2]
                                   /\ x.spread_high = b[3]

\* C37: no spread bid is accepted on a market that is not CREATED (the
\* bid set is frozen from activation on), and a market is never at once
\* open for bidding and eligible for activation.
C37_NoBidOnMarketNotCreated ==
    /\ ~(is_spread_bidding_active(market, now)
            /\ should_auto_activate(market, bids, now))
    /\ market.status # "CREATED" =>
           \A b \in BidInputs :
               ~SpreadBid_clean(market, b[1], b[2], b[3], now)

\* A market that has left CREATED with a final spread and a market maker
Activated(m) ==
    /\ m.status # "CREATED"
    /\ m.final_spread_low # Null
    /\ m.final_spread_high # Null
    /\ m.market_maker # NoUser

\* C38: once a market has been activated (it has left CREATED with a final
\* spread and a market maker), no later operation changes final_spread_low,
\* final_spread_high or market_maker, and the spread trades are priced at
\* is the final spread.
C38_ActivatedSpreadAndMakerNeverChange ==
    /\ [](Activated(market) =>
             /\ TradePrice(market, "SHORT") = ToDecimal(market.final_spread_low)
             /\ TradePrice(market, "LONG") = ToDecimal(market.final_spread_high))
    /\ [][Activated(market) =>
             /\ market'.final_spread_low = market.final_spread_low
             /\ market'.final_spread_high = market.final_spread_high
             /\ market'.market_maker = market.market_maker]_vars

\* C39: a market whose settlement preview is calculated has a settlement
\* price, and a market with a settlement price is CLOSED or SETTLED: it
\* cannot be reopened, its trading is not active, and it neither admits
\* nor removes a trade.
C39_PricedMarketStaysClosed ==
    /\ market.settlement_preview_calculated => market.settlement_price # Null
    /\ market.settlement_price # Null =>
           /\ market.status \in {"CLOSED", "SETTLED"}
           /\ ~can_be_reopened(market)
           /\ ~is_trading_active(market, now)
           /\ \A c \in TradeCreations :
                  ~Trade_clean(market, c[1], c[2],
                               c[4] + (IF c[3] = "high"
                                       THEN market.market_maker_spread_high
                                       ELSE market.market_maker_spread_low),
                               TRUE, c[5], now)

\* A CLOSED market that holds a trade, with its price set and previewed
C39_Witness ==
    /\ market.status = "CLOSED"
    /\ market.settlement_price # Null
    /\ market.settlement_preview_calculated
    /\ trades # {}

\* The market after delay_market_for_no_bids() has been called at the fixed
\* instant t until it answers failure (at most n times)
RECURSIVE DelayRepeatedly(_, _, _)
DelayRepeatedly(m, t, n) ==
    IF n = 0 \/ ~delay_market_for_no_bids(m, {}, t).success THEN m
    ELSE DelayRepeatedly(delay_market_for_no_bids(m, {}, t).m, t, n - 1)

\* C40: at a fixed instant, delaying a CREATED market without bids again
\* and again comes to an end: then the bidding close is not before now, the
\* delay is refused and the bidding window is active, so a bid can be
\* placed; a market without bids is never left unable both to receive a bid
\* and to be delayed.
C40_DelaysEndWithBiddingActive ==
    (market.status = "CREATED" /\ bids = {}
                               /\ now >= market.spread_bidding_open) =>
        LET m == DelayRepeatedly(market, now, MaxDelays)
        IN  /\ ~should_delay_for_no_bids(m, bids, now)
            /\ ~delay_market_for_no_bids(m, bids, now).success
            /\ m.spread_bidding_close_trading_open >= now
            /\ is_spread_bidding_active(m, now)
            /\ \E b \in BidInputs : SpreadBid_clean(m, b[1], b[2], b[3], now)

====
